---- MODULE Spec2Model ----
(***************************************************************************)
(* Connect4 environment and tabular Q-learning agent of Q-learn.py.        *)
(*                                                                         *)
(* Spec      client calls on one Connect4 / QLearningAgent pair            *)
(*           (play, winner, choose_action), columns chosen freely.         *)
(* SpecGrid  winner() called on grids written directly into env.board.     *)
(* SpecAgent client calls of play, choose_action and update: the learning  *)
(*           agent on small boards, with a table that fills.               *)
(* SpecGame  play_game(env, agent1, agent2) as the script runs it, one     *)
(*           episode per seed of the random generator; FairSpecGame adds   *)
(*           that the loop keeps running.                                  *)
(* SpecConfig  QLearningAgent(alpha=..., gamma=...) constructed with       *)
(*           chosen parameters, then update called on it.                  *)
(***************************************************************************)
EXTENDS Integers, Sequences, FiniteSets, TLC

VARIABLES board, current_player, alpha, gamma, Q, last, updates, pc, rng,
          game_winner

vars == <<board, current_player, alpha, gamma, Q, last, updates, pc, rng,
          game_winner>>

(***************************************************************************)
(* Bounds of the exploration.                                              *)
(***************************************************************************)
\* client calls of Spec are made on boards holding at most MaxMoves pieces
MaxMoves == 5

\* SpecAgent: play is called on boards holding fewer than MaxAgentMoves
\* pieces, choose_action on boards holding at most that many
MaxAgentMoves == 5

\* SpecAgent: the number of calls of update
MaxUpdates == 2

(***************************************************************************)
(* Python helpers.                                                         *)
(***************************************************************************)
EMPTY == " "

\* stand-in for None where the other results are strings (winner)
NoWinner == "None"

\* stand-in for None where the other results are column indices
NoMove == -1

\* range(n) as the sequence 0, 1, .., n-1
Range(n) == [i \in 1..n |-> i - 1]

NumRows == 6

NumCols == 7

Rows == 0..(NumRows - 1)

Cols == 0..(NumCols - 1)

Marks == {"R", "Y"}

(***************************************************************************)
(* class Connect4                                                          *)
(***************************************************************************)
\* Connect4.__init__: self.board
EmptyBoard == [row \in Rows |-> [col \in Cols |-> EMPTY]]

\* Connect4.__init__: self.current_player
FirstPlayer == "R"

\* play() scanning from the top down, as range(1, 6) would
PlayRangeTopDown == <<1, 2, 3, 4, 5>>

\* range(5, 0, -1): the rows play() scans, in scan order
PlayRange == <<5, 4, 3, 2, 1>>

\* a play() loop that takes the bottom row whatever it holds
FindRowBottom(b, col, i) == <<PlayRange[1]>>

\* the loop of play(): the first row of PlayRange, from position i on, whose
\* cell in column col is EMPTY; <<>> when the loop falls through
RECURSIVE FindRow(_, _, _)
FindRow(b, col, i) ==
  IF i > Len(PlayRange) THEN <<>>
  ELSE IF b[PlayRange[i]][col] = EMPTY THEN <<PlayRange[i]>>
  ELSE FindRow(b, col, i + 1)

\* a toggle that never hands the turn back to R
ToggleStuck(p) == "Y"

\* "Y" if self.current_player == "R" else "R"
Toggle(p) == IF p = "R" THEN "Y" ELSE "R"

\* a rejected play() that passes the turn all the same
RejectedPlayerToggled(p) == Toggle(p)

\* the player left after a rejected play(): return False, nothing assigned
RejectedPlayer(p) == p

\* Connect4.play(col) on grid b with player p to move
play(b, p, col) ==
  LET found == FindRow(b, col, 1) IN
  IF found # <<>>
  THEN [ret |-> TRUE,
        board |-> [b EXCEPT ![found[1]][col] = p],
        current_player |-> Toggle(p)]
  ELSE [ret |-> FALSE, board |-> b, current_player |-> RejectedPlayer(p)]

\* a == b == c == d != " " on the four cells from (row, col) in steps of
\* (dr, dc)
Line4(b, row, col, dr, dc) ==
  /\ b[row][col] = b[row + dr][col + dc]
  /\ b[row + dr][col + dc] = b[row + 2 * dr][col + 2 * dc]
  /\ b[row + 2 * dr][col + 2 * dc] = b[row + 3 * dr][col + 3 * dc]
  /\ b[row + 3 * dr][col + 3 * dc] # EMPTY

\* the first position, from i on, of a TRUE in the sequence hits of test
\* outcomes (hits[k] is the outcome of the loop's k-th test); 0 if none
RECURSIVE FirstIndex(_, _)
FirstIndex(hits, i) ==
  IF i > Len(hits) THEN 0
  ELSE IF hits[i] THEN i
  ELSE FirstIndex(hits, i + 1)

\* for a in outer: for b in inner, as the sequence of pairs in loop order
Nested(outer, inner) ==
  [k \in 1..(Len(outer) * Len(inner)) |->
     <<outer[((k - 1) \div Len(inner)) + 1], inner[((k - 1) % Len(inner)) + 1]>>]

\* a row scan that stops one column short, as range(3) would
RowScanShort == Nested(Range(6), Range(3))

\* a row scan that starts at the bottom row
RowScanBottomUp == Nested(<<5, 4, 3, 2, 1, 0>>, Range(4))

\* "Check rows": for row in range(6): for col in range(4)
RowScan == Nested(Range(6), Range(4))

\* "Check columns": for col in range(7): for row in range(3)
ColScan == Nested(Range(7), Range(3))

\* "Check diagonals": for row in range(3): for col in range(4)
DiagScan == Nested(Range(3), Range(4))

\* the row test of winner() at rc = <<row, col>>
RowTest(b, rc) == Line4(b, rc[1], rc[2], 0, 1)

\* the column test of winner() at cr = <<col, row>>
ColTest(b, cr) == Line4(b, cr[2], cr[1], 1, 0)

\* the first diagonal test of winner() at rc = <<row, col>>
DiagDownTest(b, rc) == Line4(b, rc[1], rc[2], 1, 1)

\* the second diagonal test of winner() at rc = <<row, col>>
DiagUpTest(b, rc) == Line4(b, rc[1], rc[2] + 3, 1, -1)

\* "Check for draw (board full)": for col in range(7): board[0][col] == " "
TopHasEmpty(b) ==
  FirstIndex([k \in 1..Len(Range(7)) |-> b[0][Range(7)[k]] = EMPTY], 1) # 0

\* Connect4.winner() on grid b
winner(b) ==
  LET ri == FirstIndex([k \in 1..Len(RowScan) |-> RowTest(b, RowScan[k])], 1)
      ci == FirstIndex([k \in 1..Len(ColScan) |-> ColTest(b, ColScan[k])], 1)
      di == FirstIndex([k \in 1..Len(DiagScan) |->
                          \/ DiagDownTest(b, DiagScan[k])
                          \/ DiagUpTest(b, DiagScan[k])], 1)
  IN  IF ri # 0 THEN b[RowScan[ri][1]][RowScan[ri][2]]
      ELSE IF ci # 0 THEN b[ColScan[ci][2]][ColScan[ci][1]]
      ELSE IF di # 0
           THEN IF DiagDownTest(b, DiagScan[di])
                THEN b[DiagScan[di][1]][DiagScan[di][2]]
                ELSE b[DiagScan[di][1]][DiagScan[di][2] + 3]
      ELSE IF TopHasEmpty(b) THEN NoWinner
      ELSE "D"

(***************************************************************************)
(* class QLearningAgent                                                    *)
(***************************************************************************)
\* QLearningAgent.__init__: self.Q = {}
EmptyQ == [k \in {} |-> 0]

\* "".join(row) for one row of the grid: its cells, left to right
\* a join that drops the last cell of the row
JoinRowShort(b, row) == [i \in 1..(NumCols - 1) |-> b[row][i - 1]]

JoinRow(b, row) == [i \in 1..NumCols |-> b[row][i - 1]]

\* ''.join(rows) over the rows from row on, top to bottom
RECURSIVE JoinRows(_, _)
JoinRows(b, row) ==
  IF row >= NumRows THEN <<>> ELSE JoinRow(b, row) \o JoinRows(b, row + 1)

\* QLearningAgent.get_state(env)
get_state(b) == JoinRows(b, 0)

\* self.Q.get((state, action), 0)
QGet(q, state, action) ==
  IF <<state, action>> \in DOMAIN q THEN q[<<state, action>>] ELSE 0

\* [col for col in range(7) if env.play(col)] from position i of range(7) on:
\* the accepted columns, and the environment the calls leave behind.  (r is
\* bound as an element of a singleton, so that the result of play is
\* computed once per column.)
RECURSIVE ValidActions(_, _, _)
ValidActions(b, p, i) ==
  IF i > Len(Range(7)) THEN [valid |-> <<>>, board |-> b, current_player |-> p]
  ELSE LET col == Range(7)[i]
           Rest(r) == ValidActions(r.board, r.current_player, i + 1)
       IN  CHOOSE va \in {[Rest(r) EXCEPT !.valid = IF r.ret THEN <<col>> \o @
                                                   ELSE @] :
                            r \in {play(b, p, col)}} : TRUE

\* a comparison that lets a later column displace an equal earlier one
BetterOrEqual(q_value, best_value) ==
  IF best_value = <<>> THEN TRUE ELSE q_value >= best_value[1]

\* q_value > best_value, with best_value = <<>> standing for float('-inf')
Better(q_value, best_value) ==
  IF best_value = <<>> THEN TRUE ELSE q_value > best_value[1]

\* for action in valid_actions, from position i on
RECURSIVE BestScan(_, _, _, _, _, _)
BestScan(q, state, valid, i, best_action, best_value) ==
  IF i > Len(valid) THEN best_action
  ELSE LET action == valid[i]
           q_value == QGet(q, state, action)
       IN  IF Better(q_value, best_value)
           THEN BestScan(q, state, valid, i + 1, action, <<q_value>>)
           ELSE BestScan(q, state, valid, i + 1, best_action, best_value)

\* a choose_action whose exploration branch drops the piece it proposes
choose_actionExplorePlays(b, p, q, explore, rcol) ==
  LET state == get_state(b) IN
  IF explore
  THEN [ret |-> rcol, board |-> play(b, p, rcol).board,
        current_player |-> play(b, p, rcol).current_player, state |-> state]
  ELSE LET va == ValidActions(b, p, 1) IN
       [ret |-> IF va.valid = <<>> THEN NoMove
                ELSE BestScan(q, state, va.valid, 1, va.valid[1], <<>>),
        board |-> va.board, current_player |-> va.current_player,
        state |-> state]

\* QLearningAgent.choose_action(env); explore is the outcome of
\* random.random() < 0.1 and rcol the value of random.randint(0, 6)
choose_action(b, p, q, explore, rcol) ==
  LET state == get_state(b) IN
  IF explore
  THEN [ret |-> rcol, board |-> b, current_player |-> p, state |-> state]
  ELSE LET va == ValidActions(b, p, 1) IN
       [ret |-> IF va.valid = <<>> THEN NoMove
                ELSE BestScan(q, state, va.valid, 1, va.valid[1], <<>>),
        board |-> va.board, current_player |-> va.current_player,
        state |-> state]

\* the values of the table are kept as integers, in units of 1 / Scale: a
\* value gains two decimal places with each update (alpha and gamma have one
\* each), so MaxUpdates updates are computed without rounding
Scale == 100 ^ MaxUpdates

\* QLearningAgent.__init__: alpha = 0.1, as AlphaNum / AlphaDen
AlphaNum == 1

AlphaDen == 10

\* QLearningAgent.__init__: gamma = 0.9, as GammaNum / GammaDen
GammaNum == 9

GammaDen == 10

\* self.alpha * x, self.alpha being the fraction alpha[1] / alpha[2]
TimesAlpha(x) == (alpha[1] * x) \div alpha[2]

\* self.gamma * x, self.gamma being the fraction gamma[1] / gamma[2]
TimesGamma(x) == (gamma[1] * x) \div gamma[2]

\* the largest element of a non-empty set of integers: max(...)
Max(S) == CHOOSE x \in S : \A y \in S : x >= y

\* a scan of the next state's actions that stops one column short
NextActionsShort == Range(6)

\* "for a in range(7)" of update()
NextActions == Range(7)

\* max(self.Q.get((next_state, a), 0) for a in range(7))
MaxQNext(q, next_state) ==
  Max({QGet(q, next_state, NextActions[i]) : i \in 1..Len(NextActions)})

\* an update() that reads the next state's values with setdefault, leaving
\* an entry of 0 for each of them that was absent
updateSetDefault(q, state, action, reward, next_state) ==
  LET q_value == QGet(q, state, action)
      max_q_next == MaxQNext(q, next_state)
      new_q_value ==
        q_value + TimesAlpha(reward * Scale + TimesGamma(max_q_next) - q_value)
      read == {<<next_state, NextActions[i]>> : i \in 1..Len(NextActions)}
  IN  [k \in DOMAIN q \cup read \cup {<<state, action>>} |->
         IF k = <<state, action>> THEN new_q_value
         ELSE IF k \in DOMAIN q THEN q[k] ELSE 0]

\* QLearningAgent.update(state, action, reward, next_state): the new table
update(q, state, action, reward, next_state) ==
  LET q_value == QGet(q, state, action)
      max_q_next == MaxQNext(q, next_state)
      new_q_value ==
        q_value + TimesAlpha(reward * Scale + TimesGamma(max_q_next) - q_value)
  IN  [k \in DOMAIN q \cup {<<state, action>>} |->
         IF k = <<state, action>> THEN new_q_value ELSE q[k]]

(***************************************************************************)
(* The state.  board and current_player are the fields of the Connect4     *)
(* instance env; alpha, gamma (as fractions <<numerator, denominator>>)    *)
(* and Q the fields of the QLearningAgent instance agent1.  last           *)
(* records the latest call and its result: op the method, col the column   *)
(* passed or returned, ok the result of play, out the result of winner,    *)
(* explore the branch choose_action took and state its local variable      *)
(* state, upd the arguments of update.                                     *)
(* updates counts the calls of update.  pc, rng and game_winner belong to  *)
(* play_game.                                                              *)
(***************************************************************************)
NoCall == [op |-> "init", col |-> NoMove, ok |-> TRUE, out |-> NoWinner,
           explore |-> FALSE, state |-> <<>>, upd |-> <<>>]

\* the number of occupied cells of grid b
Occupied(b) == Cardinality({rc \in Rows \X Cols : b[rc[1]][rc[2]] # EMPTY})

\* env = Connect4(); agent1 = QLearningAgent()
Init ==
  /\ board = EmptyBoard
  /\ current_player = FirstPlayer
  /\ alpha = <<AlphaNum, AlphaDen>>
  /\ gamma = <<GammaNum, GammaDen>>
  /\ Q = EmptyQ
  /\ last = NoCall
  /\ updates = 0
  /\ pc = "client"
  /\ rng = 0
  /\ game_winner = NoWinner

\* a client calls env.play(col)
Play(col) ==
  /\ pc = "client"
  /\ Occupied(board) <= MaxMoves
  /\ LET r == play(board, current_player, col) IN
       /\ board' = r.board
       /\ current_player' = r.current_player
       /\ last' = [NoCall EXCEPT !.op = "play", !.col = col, !.ok = r.ret]
  /\ UNCHANGED <<alpha, gamma, Q, updates, pc, rng, game_winner>>

\* a client calls env.winner()
WinnerCall ==
  /\ pc = "client"
  /\ last' = [NoCall EXCEPT !.op = "winner", !.out = winner(board)]
  /\ UNCHANGED <<alpha, gamma, board, current_player, Q, updates, pc, rng,
                 game_winner>>

\* a client calls agent1.choose_action(env)
ChooseAction(explore, rcol) ==
  /\ pc = "client"
  /\ Occupied(board) <= MaxMoves
  /\ LET r == choose_action(board, current_player, Q, explore, rcol) IN
       /\ board' = r.board
       /\ current_player' = r.current_player
       /\ last' = [NoCall EXCEPT !.op = "choose_action", !.col = r.ret,
                                 !.explore = explore, !.state = r.state]
  /\ UNCHANGED <<alpha, gamma, Q, updates, pc, rng, game_winner>>

Next ==
  \/ \E col \in Cols : Play(col)
  \/ WinnerCall
  \/ \E rcol \in Cols : ChooseAction(TRUE, rcol)
  \/ ChooseAction(FALSE, 0)

Spec == Init /\ [][Next]_vars

(***************************************************************************)
(* Properties of Connect4.play                                             *)
(***************************************************************************)
\* the number of occupied cells of column col
Height(b, col) == Cardinality({row \in Rows : b[row][col] # EMPTY})

\* the number of cells of grid b holding mark m
CountOf(b, m) == Cardinality({rc \in Rows \X Cols : b[rc[1]][rc[2]] = m})

\* C1: play(col) returns True exactly when the topmost cell (row 0) of the
\* column is EMPTY, so that each column accepts six pieces.
PlayAcceptsIffTopEmpty ==
  [][last'.op = "play" => (last'.ok <=> board[0][last'.col] = EMPTY)]_vars

\* C2: every column holds at most 6 occupied cells, and no EMPTY cell lies
\* below an occupied cell of the same column.
ColumnsContiguous ==
  \A col \in Cols :
    /\ Height(board, col) <= NumRows
    /\ \A row \in Rows :
         (row + 1 \in Rows /\ board[row][col] # EMPTY)
           => board[row + 1][col] # EMPTY

\* a column has been stacked as high as play() lets it be, next to a lower
\* one, and the latest call was a play
WitnessStacked ==
  /\ last.op = "play"
  /\ \E c1, c2 \in Cols : Height(board, c1) >= 4 /\ Height(board, c2) = 1

\* C3: a rejected play(col) leaves the grid and current_player as they were.
RejectedPlayIsNoOp ==
  [][(last'.op = "play" /\ ~last'.ok)
       => (board' = board /\ current_player' = current_player)]_vars

\* a play has been rejected
WitnessRejected == last.op = "play" /\ ~last.ok

\* C4: current_player starts as R and toggles on every accepted placement:
\* the R cells outnumber the Y cells by 0 or 1, and R is to move exactly
\* when the counts are equal.
StrictAlternation ==
  /\ CountOf(board, "R") - CountOf(board, "Y") \in {0, 1}
  /\ current_player = "R" <=> CountOf(board, "R") = CountOf(board, "Y")

\* accepted placements of both marks, then a rejected play
WitnessAlternated ==
  /\ last.op = "play" /\ ~last.ok
  /\ CountOf(board, "R") = 3
  /\ CountOf(board, "Y") = 2
  /\ current_player = "Y"

(***************************************************************************)
(* winner() as a function of the grid.  board is a public attribute, and   *)
(* winner() reads nothing else, so SpecGrid calls it on grids that play()  *)
(* cannot build as well: a top row pattern, over which some of the four    *)
(* cells of one window are painted with one mark, and grids, empty         *)
(* elsewhere, with two windows painted with different marks.               *)
(***************************************************************************)
\* the directions of a line: right, down, down-right, down-left
Directions == {<<0, 1>>, <<1, 0>>, <<1, 1>>, <<1, -1>>}

\* the cells of the window of four cells from (row, col) in direction d
WindowCells(row, col, d) ==
  [k \in 1..4 |-> <<row + (k - 1) * d[1], col + (k - 1) * d[2]>>]

\* the windows of four cells that lie on the grid
Windows ==
  {w \in {WindowCells(row, col, d) : row \in Rows, col \in Cols, d \in Directions} :
     \A k \in 1..4 : w[k][1] \in Rows /\ w[k][2] \in Cols}

\* mark m owns a line of grid b: four cells in a row, a column or a diagonal
HasLine(b, m) ==
  \E w \in Windows : \A k \in 1..4 : b[w[k][1]][w[k][2]] = m

\* row 0 filled with blocks of width cells of alternating marks, the first
\* block cut by shift cells, with column hole (if any) left EMPTY
TopRow(width, shift, hole) ==
  [col \in Cols |->
     IF col = hole THEN EMPTY
     ELSE IF ((col + shift) \div width) % 2 = 0 THEN "R" ELSE "Y"]

\* the top rows SpecGrid starts from
TopRows ==
  {[col \in Cols |-> EMPTY]} \cup
  {TopRow(width, shift, hole) : width \in 1..4, shift \in 0..1, hole \in 0..NumCols}

\* the grid with row 0 = top in which the cells of window w numbered in
\* painted hold mark m
GridOf(top, w, m, painted) ==
  [row \in Rows |-> [col \in Cols |->
     IF \E k \in painted : w[k] = <<row, col>> THEN m
     ELSE IF row = 0 THEN top[col]
     ELSE EMPTY]]

\* grid b with the four cells of window w holding mark m
Paint(b, w, m) ==
  [row \in Rows |-> [col \in Cols |->
     IF \E k \in 1..4 : w[k] = <<row, col>> THEN m ELSE b[row][col]]]

\* the grid, empty elsewhere, with window w1 painted m and then window w2
\* painted the other mark
TwoLineGrid(w1, w2, m) ==
  Paint(Paint(EmptyBoard, w1, m), w2, IF m = "R" THEN "Y" ELSE "R")

InitGrid ==
  /\ \/ \E top \in TopRows, w \in Windows, m \in Marks,
            painted \in SUBSET (1..4) :
            board = GridOf(top, w, m, painted)
     \/ \E w1 \in Windows, w2 \in Windows, m \in Marks :
            board = TwoLineGrid(w1, w2, m)
  /\ current_player = FirstPlayer
  /\ alpha = <<AlphaNum, AlphaDen>>
  /\ gamma = <<GammaNum, GammaDen>>
  /\ Q = EmptyQ
  /\ last = NoCall
  /\ updates = 0
  /\ pc = "grid"
  /\ rng = 0
  /\ game_winner = NoWinner

\* env.winner() on the grid as written
GridWinner ==
  /\ pc = "grid"
  /\ last' = [NoCall EXCEPT !.op = "winner", !.out = winner(board)]
  /\ UNCHANGED <<alpha, gamma, board, current_player, Q, updates, pc, rng,
                 game_winner>>

NextGrid == GridWinner

SpecGrid == InitGrid /\ [][NextGrid]_vars

Rewards == {-1, 1}

\* the column the client of SpecAgent plays
AgentCols == {0}

\* the actions the client of SpecAgent passes to update: the edge columns
EdgeCols == {0, NumCols - 1}

\* the next states passed to update: the key of the board as it is, and the
\* key of the empty board
NextStates == {get_state(board), get_state(EmptyBoard)}

AgentPlay(col) ==
  /\ pc = "agent"
  /\ Occupied(board) < MaxAgentMoves
  /\ LET r == play(board, current_player, col) IN
       /\ board' = r.board
       /\ current_player' = r.current_player
       /\ last' = [NoCall EXCEPT !.op = "play", !.col = col, !.ok = r.ret]
  /\ UNCHANGED <<alpha, gamma, Q, updates, pc, rng, game_winner>>

AgentChoose(explore, rcol) ==
  /\ pc = "agent"
  /\ Occupied(board) <= MaxAgentMoves
  /\ LET r == choose_action(board, current_player, Q, explore, rcol) IN
       /\ board' = r.board
       /\ current_player' = r.current_player
       /\ last' = [NoCall EXCEPT !.op = "choose_action", !.col = r.ret,
                                 !.explore = explore, !.state = r.state]
  /\ UNCHANGED <<alpha, gamma, Q, updates, pc, rng, game_winner>>

\* a client calls agent1.update(state, action, reward, next_state)
AgentUpdate(state, action, reward, next_state) ==
  /\ pc = "agent"
  /\ updates < MaxUpdates
  /\ Q' = update(Q, state, action, reward, next_state)
  /\ updates' = updates + 1
  /\ last' = [NoCall EXCEPT !.op = "update",
                            !.upd = <<state, action, reward, next_state>>]
  /\ UNCHANGED <<alpha, gamma, board, current_player, pc, rng, game_winner>>

\* a winner() that passes the turn
AgentWinnerPassesTurn ==
  /\ pc = "agent"
  /\ last' = [NoCall EXCEPT !.op = "winner", !.out = winner(board)]
  /\ current_player' = Toggle(current_player)
  /\ UNCHANGED <<alpha, gamma, board, Q, updates, pc, rng, game_winner>>

\* a client calls env.winner()
AgentWinner ==
  /\ pc = "agent"
  /\ last' = [NoCall EXCEPT !.op = "winner", !.out = winner(board)]
  /\ UNCHANGED <<alpha, gamma, board, current_player, Q, updates, pc, rng,
                 game_winner>>

InitAgent ==
  /\ board = EmptyBoard
  /\ current_player = FirstPlayer
  /\ alpha = <<AlphaNum, AlphaDen>>
  /\ gamma = <<GammaNum, GammaDen>>
  /\ Q = EmptyQ
  /\ last = NoCall
  /\ updates = 0
  /\ pc = "agent"
  /\ rng = 0
  /\ game_winner = NoWinner

NextAgent ==
  \/ \E col \in AgentCols : AgentPlay(col)
  \/ \E rcol \in Cols : AgentChoose(TRUE, rcol)
  \/ AgentChoose(FALSE, 0)
  \/ \E action \in EdgeCols, reward \in Rewards, next_state \in NextStates :
       AgentUpdate(get_state(board), action, reward, next_state)
  \/ AgentWinner

SpecAgent == InitAgent /\ [][NextAgent]_vars

\* the columns in which grid b accepts a drop
LegalCols(b, p) == {col \in Cols : play(b, p, col).ret}

\* C9: on the exploitation path, when some column is legal, choose_action
\* returns a legal column whose stored value for the state key of the board
\* at the start of the call is the highest among the legal columns (absent
\* entries counting 0), and the lowest-indexed of those.
ExploitPicksBest ==
  [][(last'.op = "choose_action" /\ ~last'.explore
        /\ LegalCols(board, current_player) # {})
       => LET legal == LegalCols(board, current_player)
              key == get_state(board)
          IN  /\ last'.col \in legal
              /\ \A col \in legal :
                   /\ QGet(Q, key, col) <= QGet(Q, key, last'.col)
                   /\ QGet(Q, key, col) = QGet(Q, key, last'.col)
                        => last'.col <= col]_vars

\* the exploitation path, on a board whose column 0 is full and has the one
\* positive stored value while the last column has a negative one, has
\* returned column 1, the first of the legal columns tied at 0
WitnessExploitTie ==
  /\ last.op = "choose_action" /\ ~last.explore
  /\ last.col = 1
  /\ QGet(Q, last.state, 0) > 0
  /\ QGet(Q, last.state, NumCols - 1) < 0

\* C10: update(s, a, r, s2) stores Q_old + alpha * (r + gamma * M - Q_old)
\* for (s, a), M being the largest of the seven values of (s2, c), absent
\* entries counting 0: the gap to the target r + gamma * M shrinks to
\* (1 - alpha) of what it was.
UpdateMovesByAlpha ==
  [][last'.op = "update"
       => LET s == last'.upd[1]
              a == last'.upd[2]
              r == last'.upd[3]
              s2 == last'.upd[4]
              old == QGet(Q, s, a)
              M == CHOOSE m \in {QGet(Q, s2, c) : c \in Cols} :
                     \A c \in Cols : QGet(Q, s2, c) <= m
              \* the target, the old and the new value, each times
              \* GammaDen * AlphaDen
              target == AlphaDen * (GammaDen * r * Scale + GammaNum * M)
              old100 == AlphaDen * GammaDen * old
              new100 == AlphaDen * GammaDen * Q'[<<s, a>>]
          IN  /\ <<s, a>> \in DOMAIN Q'
              /\ AlphaDen * new100
                   = AlphaDen * old100 + AlphaNum * (target - old100)
              /\ AlphaDen * (target - new100)
                   = (AlphaDen - AlphaNum) * (target - old100)]_vars

\* an update of an entry that had a value, towards a next state whose best
\* value is that of the last column: 0.1 + 0.1 * (1 + 0.9 * 0.1 - 0.1)
WitnessUpdated ==
  /\ last.op = "update"
  /\ last.upd[1] = last.upd[4]
  /\ last.upd[2] = NumCols - 1
  /\ last.upd[3] = 1
  /\ 1000 * QGet(Q, last.upd[1], NumCols - 1) = 199 * Scale

(***************************************************************************)
(* play_game(env, agent1, agent2) with agent1 = QLearningAgent() and       *)
(* agent2 = Agent(), as the script calls it.  pc is the position in the    *)
(* loop, game_winner the local variable winner.  The module random is a    *)
(* deterministic generator: rng is its state, and an episode is determined *)
(* by the seed.  A small full-period congruential generator stands in for  *)
(* the Mersenne Twister; every seed is explored.                           *)
(***************************************************************************)
\* the number of states of the generator
RngModulus == 256

\* the state of the generator after one more draw
RandomNext(x) == (9 * x + 3) % RngModulus

\* random.random() < 0.1, for the draw that leaves the generator in state x
\* (random.random() = x / RngModulus)
RandomBelowTenth(x) == 10 * x < RngModulus

\* random.randint(0, 6), for the draw that leaves the generator in state x
RandInt(x) == x % NumCols

\* the seeds
Seeds == 0..(RngModulus - 1)

InitGame ==
  /\ board = EmptyBoard
  /\ current_player = FirstPlayer
  /\ alpha = <<AlphaNum, AlphaDen>>
  /\ gamma = <<GammaNum, GammaDen>>
  /\ Q = EmptyQ
  /\ last = NoCall
  /\ updates = 0
  /\ pc = "agent1"
  /\ rng \in Seeds
  /\ game_winner = NoWinner

\* col = agent1.choose_action(env), agent1 the QLearningAgent
GameAgent1 ==
  /\ pc = "agent1"
  /\ LET r1 == RandomNext(rng)
         explore == RandomBelowTenth(r1)
         r2 == RandomNext(r1)
         r == choose_action(board, current_player, Q, explore, RandInt(r2))
     IN  /\ board' = r.board
         /\ current_player' = r.current_player
         /\ rng' = IF explore THEN r2 ELSE r1
         /\ last' = [NoCall EXCEPT !.op = "choose_action", !.col = r.ret,
                                   !.explore = explore, !.state = r.state]
  /\ pc' = "winner1"
  /\ UNCHANGED <<alpha, gamma, Q, updates, game_winner>>

\* winner = env.winner(); if winner: break -- at position at, going on to
\* position on when the result is None
GameWinner(at, on) ==
  /\ pc = at
  /\ game_winner' = winner(board)
  /\ last' = [NoCall EXCEPT !.op = "winner", !.out = winner(board)]
  /\ pc' = IF winner(board) # NoWinner THEN "done" ELSE on
  /\ UNCHANGED <<alpha, gamma, board, current_player, Q, updates, rng>>

GameWinner1 == GameWinner("winner1", "agent2")

\* col = agent2.choose_action(env), agent2 the random Agent: one iteration
\* of its while True loop
GameAgent2 ==
  /\ pc = "agent2"
  /\ LET x == RandomNext(rng)
         col == RandInt(x)
         r == play(board, current_player, col)
     IN  /\ board' = r.board
         /\ current_player' = r.current_player
         /\ rng' = x
         /\ last' = [NoCall EXCEPT !.op = "play", !.col = col, !.ok = r.ret]
         /\ pc' = IF r.ret THEN "winner2" ELSE "agent2"
  /\ UNCHANGED <<alpha, gamma, Q, updates, game_winner>>

GameWinner2 == GameWinner("winner2", "agent1")

NextGame ==
  \/ GameAgent1
  \/ GameWinner1
  \/ GameAgent2
  \/ GameWinner2

SpecGame == InitGame /\ [][NextGame]_vars

\* the interpreter runs the loop for as long as it has a step to take
FairSpecGame == SpecGame /\ WF_vars(NextGame)

\* C6: on a board on which no column accepts a drop and which holds no line
\* of four, winner() returns draw.
FullBoardIsDraw ==
  (/\ last.op = "winner"
   /\ LegalCols(board, current_player) = {}
   /\ ~ \E m \in Marks : HasLine(board, m))
    => last.out = "D"

\* C7: every episode ends with an outcome of R, Y or draw, and the board
\* never holds more than 42 pieces.
EpisodeTerminates ==
  /\ <>(pc = "done" /\ game_winner \in {"R", "Y", "D"})
  /\ [](Occupied(board) <= NumRows * NumCols)

\* C8: choose_action, called on a board on which no column accepts a drop,
\* returns None on every branch.
NoMoveOnFullBoard ==
  [][(last'.op = "choose_action" /\ LegalCols(board, current_player) = {})
       => last'.col = NoMove]_vars

(***************************************************************************)
(* Frame properties of the agent and of the board                          *)
(***************************************************************************)
\* C11: the table only grows: no call removes a key, choose_action leaves
\* the table as it is (its reads of absent entries create none), and
\* update(s, a, r, s2) creates or changes the entry (s, a) alone (its reads
\* of absent entries of s2 create none).
TableOnlyGrows ==
  [][/\ DOMAIN Q \subseteq DOMAIN Q'
     /\ last'.op # "update" => Q' = Q
     /\ last'.op = "update" =>
          LET key == <<last'.upd[1], last'.upd[2]>> IN
            /\ DOMAIN Q' = DOMAIN Q \cup {key}
            /\ \A k \in DOMAIN Q \ {key} : Q'[k] = Q[k]]_vars

\* an update has left a second entry in the table, none of them for the
\* inner columns of its next state, which it read
WitnessSecondEntry ==
  /\ last.op = "update"
  /\ Cardinality(DOMAIN Q) = 2
  /\ \A col \in Cols \ EdgeCols : <<last.upd[4], col>> \notin DOMAIN Q

\* the cells in which grids b1 and b2 differ
Changed(b1, b2) == {rc \in Rows \X Cols : b1[rc[1]][rc[2]] # b2[rc[1]][rc[2]]}

\* C20: an accepted play(col) changes exactly one cell, from EMPTY to the
\* mover's mark, and no call of play, winner, choose_action (get_state
\* within it) or update changes a cell that holds a mark.
PiecesArePermanent ==
  [][/\ \A row \in Rows, col \in Cols :
          board[row][col] # EMPTY => board'[row][col] = board[row][col]
     /\ (last'.op = "play" /\ last'.ok) =>
          \E row \in Rows :
            /\ Changed(board, board') = {<<row, last'.col>>}
            /\ board[row][last'.col] = EMPTY
            /\ board'[row][last'.col] = current_player]_vars

\* a play has been accepted on top of three pieces of its column
WitnessPlayedOnTop ==
  /\ last.op = "play" /\ last.ok
  /\ Height(board, last.col) = 4

\* C14: winner() leaves the grid and current_player as they were, and its
\* result is the one a further call on the board it leaves would give.
WinnerIsPure ==
  [][last'.op = "winner"
       => /\ board' = board
          /\ current_player' = current_player
          /\ last'.out = winner(board')]_vars

\* winner() has been called on a board that holds pieces, with Y to move
WitnessWinnerCalled ==
  /\ last.op = "winner"
  /\ Occupied(board) = 3
  /\ current_player = "Y"

\* the lowest EMPTY cell of column col of grid b, as a set: empty when the
\* column has none
LowestEmpty(b, col) ==
  {row \in Rows : /\ b[row][col] = EMPTY
                  /\ \A below \in Rows : below > row => b[below][col] # EMPTY}

\* C15: a choose_action that takes the exploitation path and returns column
\* c changes the board by that move alone: one cell differs, the lowest
\* EMPTY cell of column c, now holding the mark of the player who was to
\* move, and current_player has toggled once.
ExploitAppliesReturnedMove ==
  [][(last'.op = "choose_action" /\ ~last'.explore /\ last'.col # NoMove)
       => /\ \E row \in LowestEmpty(board, last'.col) :
               /\ Changed(board, board') = {<<row, last'.col>>}
               /\ board'[row][last'.col] = current_player
          /\ current_player' = Toggle(current_player)]_vars

\* C19: a choose_action that takes the exploration branch returns a column
\* in 0..6 and leaves the grid, current_player and the table as they were,
\* whether or not that column accepts a drop.
ExploreIsReadOnly ==
  [][(last'.op = "choose_action" /\ last'.explore)
       => /\ last'.col \in Cols
          /\ board' = board
          /\ current_player' = current_player
          /\ Q' = Q]_vars

\* the exploration branch has returned a column that accepts no drop
WitnessExploredIllegal ==
  /\ last.op = "choose_action" /\ last.explore
  /\ last.col \in Cols \ LegalCols(board, current_player)

\* the grid a key spells: character row * 7 + col of the key is cell
\* (row, col)
Decode(key) ==
  [row \in Rows |-> [col \in Cols |-> key[row * NumCols + col + 1]]]

\* C12: the key choose_action takes is the row-major spelling of the 42
\* cells of the grid and of nothing else: reading it back cell by cell
\* gives the grid, so two grids have the same key exactly when all their
\* cells are equal; the grid after the call has the same key exactly when
\* the call left every cell as it was, whoever is to move
KeyDeterminesGrid ==
  [][last'.op = "choose_action"
       => /\ Len(last'.state) = NumRows * NumCols
          /\ Decode(last'.state) = board
          /\ (get_state(board') = last'.state) <=> (board' = board)]_vars

\* C12 witness: the key was taken of a grid that two orders of play reach
\* (columns 0, 1, 2 and columns 2, 1, 0), with Y to move
WitnessKeyOfTransposed ==
  /\ last.op = "choose_action"
  /\ last.explore
  /\ Occupied(board) = 3
  /\ board[5][0] = "R" /\ board[5][1] = "Y" /\ board[5][2] = "R"
  /\ last.state = get_state(board)

(***************************************************************************)
(* SpecConfig: a client constructs agent1 = QLearningAgent(alpha=a,        *)
(* gamma=g) and then calls agent1.update.  The step size of choose_action  *)
(* (0.1) is a literal of the method and no parameter of the constructor.   *)
(***************************************************************************)
\* values of the keyword argument alpha the client passes, the default
\* among them
AlphaChoices == {<<AlphaNum, AlphaDen>>, <<1, 1>>, <<2, 1>>, <<0, 1>>}

\* values of the keyword argument gamma the client passes, the default
\* among them
GammaChoices == {<<GammaNum, GammaDen>>, <<0, 1>>, <<2, 1>>}

\* the keys update is called with: the empty grid and the grid after the
\* first drop in column 0
ConfigStates ==
  {get_state(EmptyBoard), get_state(play(EmptyBoard, FirstPlayer, 0).board)}

\* before the constructor has run there is no agent
InitConfig ==
  /\ board = EmptyBoard
  /\ current_player = FirstPlayer
  /\ alpha = <<AlphaNum, AlphaDen>>
  /\ gamma = <<GammaNum, GammaDen>>
  /\ Q = EmptyQ
  /\ last = NoCall
  /\ updates = 0
  /\ pc = "new"
  /\ rng = 0
  /\ game_winner = NoWinner

\* QLearningAgent.__init__(alpha=a, gamma=g): the three assignments
Construct(a, g) ==
  /\ pc = "new"
  /\ alpha' = a
  /\ gamma' = g
  /\ Q' = EmptyQ
  /\ pc' = "config"
  /\ last' = [NoCall EXCEPT !.op = "__init__"]
  /\ UNCHANGED <<board, current_player, updates, rng, game_winner>>

\* the client calls agent1.update(state, action, reward, next_state)
ConfigUpdate(state, action, reward, next_state) ==
  /\ pc = "config"
  /\ updates < MaxUpdates
  /\ Q' = update(Q, state, action, reward, next_state)
  /\ updates' = updates + 1
  /\ last' = [NoCall EXCEPT !.op = "update",
                            !.upd = <<state, action, reward, next_state>>]
  /\ UNCHANGED <<alpha, gamma, board, current_player, pc, rng, game_winner>>

NextConfig ==
  \/ \E a \in AlphaChoices, g \in GammaChoices : Construct(a, g)
  \/ \E state \in ConfigStates, reward \in Rewards,
        next_state \in ConfigStates :
        ConfigUpdate(state, 0, reward, next_state)

SpecConfig == InitConfig /\ [][NextConfig]_vars

\* C13: no agent exists whose learning rate is outside (0, 1] or whose
\* discount factor is outside [0, 1]: a constructor call with such a value
\* leaves no agent behind
NoOutOfRangeAgent ==
  pc = "config"
    => /\ 0 < alpha[1] /\ alpha[1] <= alpha[2]
       /\ 0 <= gamma[1] /\ gamma[1] <= gamma[2]

\* the target of update(state, action, reward, next_state) on table q, in
\* units of 1/Scale
Target(q, reward, next_state) ==
  reward * Scale + TimesGamma(MaxQNext(q, next_state))

\* C17: an update call that leaves the stored values of its next state as
\* they were moves the stored value of (state, action) no farther from
\* the target reward + gamma * max Q[next_state, .] and not to the other
\* side of it
UpdateApproachesTarget ==
  [][(/\ last'.op = "update"
      /\ \A col \in Cols :
           QGet(Q', last'.upd[4], col) = QGet(Q, last'.upd[4], col))
       => LET target == Target(Q, last'.upd[3], last'.upd[4])
              before == QGet(Q, last'.upd[1], last'.upd[2])
              after  == QGet(Q', last'.upd[1], last'.upd[2])
          IN  /\ before <= target => (before <= after /\ after <= target)
              /\ before >= target => (target <= after /\ after <= before)]_vars

\* the windows of grid b that hold four equal marks
Lines(b) ==
  {w \in Windows : \E m \in Marks : \A k \in 1..4 : b[w[k][1]][w[k][2]] = m}

\* the kind of window w: 1 horizontal, 2 vertical, 3 diagonal
Kind(w) ==
  IF w[1][1] = w[2][1] THEN 1 ELSE IF w[1][2] = w[2][2] THEN 2 ELSE 3

\* the place of window w in the scan of its kind: (top row, leftmost
\* column) of a horizontal or diagonal window, (column, top row) of a
\* vertical one
Place(w) ==
  IF Kind(w) = 2 THEN <<w[1][2], w[1][1]>>
  ELSE <<w[1][1], IF w[1][2] <= w[4][2] THEN w[1][2] ELSE w[4][2]>>

\* window v comes before window w: horizontal before vertical before
\* diagonal, and within a kind in the order of the places
Before(v, w) ==
  \/ Kind(v) < Kind(w)
  \/ /\ Kind(v) = Kind(w)
     /\ \/ Place(v)[1] < Place(w)[1]
        \/ Place(v)[1] = Place(w)[1] /\ Place(v)[2] < Place(w)[2]

\* C16: on a grid holding lines, winner() returns the mark of a first
\* line: horizontal lines first, by rows top to bottom and in a row left
\* to right; then vertical lines, by columns left to right and in a column
\* top to bottom; then diagonal lines of both orientations together, by
\* top row and in a row by leftmost column
WinnerPrecedence ==
  (last.op = "winner" /\ Lines(board) # {})
    => \E w \in Lines(board) :
         /\ \A v \in Lines(board) : ~Before(v, w)
         /\ last.out = board[w[1][1]][w[1][2]]

\* C16 witness: winner() has answered Y on a grid where R owns the
\* down-right diagonal from (0, 2) and Y the down-left diagonal from
\* (0, 3), whose leftmost column is 0, and nobody owns another line
WitnessTwoDiagonals ==
  /\ last.op = "winner"
  /\ last.out = "Y"
  /\ Lines(board) = {WindowCells(0, 2, <<1, 1>>), WindowCells(0, 3, <<1, -1>>)}
  /\ board[0][2] = "R"
  /\ board[0][3] = "Y"

\* [col for col in range(7) if env.play(col)] from position i of range(7)
\* on: some call of play was accepted on a grid for which winner() reports
\* a mark
RECURSIVE DropsOnLine(_, _, _)
DropsOnLine(b, p, i) ==
  IF i > Len(Range(7)) THEN FALSE
  ELSE LET r == play(b, p, Range(7)[i])
       IN  \/ r.ret /\ winner(b) \in Marks
           \/ DropsOnLine(r.board, r.current_player, i + 1)

\* C18: in an episode of play_game no placement is accepted on a grid for
\* which winner() reports R or Y: such a grid is left as it is by every
\* step, and no call of play inside choose_action is accepted on one
NoPlacementAfterLine ==
  [][/\ winner(board) \in Marks => board' = board
     /\ (last'.op = "choose_action" /\ ~last'.explore)
          => ~DropsOnLine(board, current_player, 1)]_vars

====
